---- MODULE Spec2Model ----
(***************************************************************************)
(* Model of the Stock Market Chat demo's MCP connection manager            *)
(* (services/mcp_service.py): the pool of connected MCPTools sessions, the *)
(* asyncio lock that serialises connect_all / disconnect_all, the tenacity *)
(* retry loop of _connect_alpha_vantage, and the tasks of the event loop   *)
(* that call the service.  One step of the model is what one task runs     *)
(* between two suspension points of the asyncio event loop.                *)
(*                                                                         *)
(* _open_connections connects Alpha Vantage and marks the place where      *)
(* further providers are appended by the same "connect, append if truthy"  *)
(* pattern.  numProviders is the number of providers it walks through:     *)
(* provider 1 is Alpha Vantage (skipped when its API key is missing), the  *)
(* others use the same retry loop.  numProviders = 1 with the key set is   *)
(* the code as shipped.                                                    *)
(*                                                                         *)
(* connect() and close() either return or raise an Exception; which one is *)
(* chosen freely at every call.  The variable event records the call that  *)
(* the last step completed, so that a postcondition is a state predicate.  *)
(***************************************************************************)
EXTENDS Integers, Sequences, FiniteSets

\* ---------------------------------------------------------------- bounds
NumTasks == 2
MaxSessions == 4
MaxRetries == 3
MaxBase == 3
MaxProviders == 2
MaxRequests == 2
MaxChunks == 3
MaxWords == 3
MaxCalls == 27

\* --------------------------------------------------- program constants
MAX_INPUT_LENGTH == 10000
DEFAULT_MCP_CONNECTION_RETRIES == 3
DEFAULT_MCP_RETRY_BACKOFF_BASE == 2
DAILY_LIMIT == 25

Tasks == 1..NumTasks

\* ------------------------------------------------------------- variables
VARIABLES
    MCP_CONNECTION_RETRIES,  \* config.MCP_CONNECTION_RETRIES
    MCP_RETRY_BACKOFF_BASE,  \* config.MCP_RETRY_BACKOFF_BASE
    ALPHA_VANTAGE_API_KEY,   \* TRUE iff config.ALPHA_VANTAGE_API_KEY is set
    numProviders,            \* how many providers _open_connections connects to
    mcp_tools_list,          \* MCPService._mcp_tools_list: sequence of session ids
    locked,                  \* asyncio.Lock._locked of _connection_lock
    waiters,                 \* asyncio.Lock._waiters: FIFO of tasks awaiting the lock
    pc,                      \* per task: where it is suspended
    op,                      \* per task: the service method of its current/last call
    provider,                \* per task: the provider _open_connections is at
    mcp_list,                \* per task: the local list of _open_connections
    attempts,                \* per task: MCPTools objects created for that provider
    waits,                   \* per task: waits slept between those attempts
    created,                 \* per task: every MCPTools object its call created
    closing,                 \* per task: the list object disconnect_all iterates
    closeIdx,                \* per task: how many of its elements were visited
    session,                 \* every MCPTools created: provider, connect and close result
    nextId,                  \* id of the next MCPTools object
    event                    \* what the last step did (suspension, return or raise)

\* The chat request handlers (routes/chat_routes.py and the app.py of the
\* simpler demos): one request is handled at a time.
VARIABLES
    variant,                 \* which demo application is running
    hpc,                     \* where the handler of the current request is
    request,                 \* the current request: X-Session-ID header and input
    session_id,              \* the handler's local session_id
    minted,                  \* how many identifiers uuid.uuid4() has produced
    requests,                \* how many requests have been received
    ensured,                 \* ensure_connected() was awaited for this request
    agent,                   \* the agent or team constructed for this request
    run_started,             \* agent.run / agent.arun was called for this request
    raised_at,               \* the step of this request that raised, if any
    consumed,                \* the run events the relay has consumed, in order
    history_lookup,          \* the history read made for this request's run
    response                 \* status, X-Session-ID header, body fragments, stream

chatVars == <<variant, hpc, request, session_id, minted, requests, ensured, agent,
              run_started, raised_at, consumed, history_lookup, response>>

\* The error handler (utils/error_handler.py) taken on its own: an exception
\* and the text get_user_friendly_message made of it.
VARIABLES
    raised_error,            \* str(error): the message of the exception, in words
    message                  \* the user-facing text returned for it, <<>> before

errVars == <<raised_error, message>>

\* The API usage tracker (utils/api_usage_tracker.py).
VARIABLES
    usage_data,              \* APIUsageTracker._usage_data: date -> count, endpoints
    storage,                 \* the file at storage_path: whether it exists, its data
    writable,                \* TRUE iff the file at storage_path can be written
    today,                   \* date.today().isoformat()
    usage_report,            \* what the last get_today_usage() returned
    allowed                  \* what the last can_make_request() returned

usageVars == <<usage_data, storage, writable, today, usage_report, allowed>>

auxVars == <<errVars, usageVars>>

cfgVars == <<MCP_CONNECTION_RETRIES, MCP_RETRY_BACKOFF_BASE, ALPHA_VANTAGE_API_KEY,
             numProviders>>

\* The state of the service apart from the record of the last step.
svcVars == <<cfgVars, mcp_tools_list, locked, waiters, pc, op, provider, mcp_list,
             attempts, waits, created, closing, closeIdx, session, nextId>>

vars == <<svcVars, event, chatVars, auxVars>>

None == 0

\* ------------------------------------------------------------ arithmetic
RECURSIVE Pow(_, _)
Pow(b, e) == IF e <= 0 THEN 1 ELSE b * Pow(b, e - 1)

Min2(a, b) == IF a <= b THEN a ELSE b

Max2(a, b) == IF a >= b THEN a ELSE b

SeqToSet(s) == {s[i] : i \in 1..Len(s)}

\* --------------------------------------------------------- retry policy
\* A wait policy that forgets the max= limit.
wait_exponential_unbounded(multiplier, min, max, exp_base, attempt_number) ==
    Max2(Max2(0, min), multiplier * Pow(exp_base, attempt_number - 1))

\* tenacity.wait_exponential.__call__: multiplier * exp_base^(attempt-1),
\* limited by max and then raised to min.
wait_exponential(multiplier, min, max, exp_base, attempt_number) ==
    Max2(Max2(0, min), Min2(multiplier * Pow(exp_base, attempt_number - 1), max))

\* The max= argument given to wait_exponential.
WaitCap == Pow(MCP_RETRY_BACKOFF_BASE, MCP_CONNECTION_RETRIES - 1)

\* The wait after failed attempt number k: multiplier=1, min=1, max=WaitCap and
\* the library's default exp_base=2.
RetryWait(k) == wait_exponential(1, 1, WaitCap, 2, k)

\* A stop condition that allows one attempt too many.
stop_after_attempt_late(attempt_number) == attempt_number > MCP_CONNECTION_RETRIES

\* A stop condition counting the attempts of every call so far, not only those
\* of the call under way.
stop_after_attempt_cumulative(attempt_number) ==
    Len(session) >= MCP_CONNECTION_RETRIES

\* tenacity.stop_after_attempt(MCP_CONNECTION_RETRIES)
stop_after_attempt(attempt_number) == attempt_number >= MCP_CONNECTION_RETRIES

\* --------------------------------------------------------------- helpers
attempt_number(t) == Len(attempts[t])

is_connected == Len(mcp_tools_list) > 0

tools == mcp_tools_list

IsConnectOp(o) == o \in {"connect_all", "ensure_connected"}

InConnect(t) == pc[t] \in {"connecting", "sleeping"}

InDisconnect(t) == pc[t] = "closing"

InCritical(t) == InConnect(t) \/ InDisconnect(t)

\* MCPTools objects the call of task t, already under way, may still create.
Reserved(t) ==
    IF IsConnectOp(op[t]) /\ pc[t] = "wait_lock"
    THEN numProviders * MCP_CONNECTION_RETRIES
    ELSE IF InConnect(t)
    THEN (MCP_CONNECTION_RETRIES - attempt_number(t))
         + (numProviders - provider[t]) * MCP_CONNECTION_RETRIES
    ELSE 0

RECURSIVE ReservedUpTo(_)
ReservedUpTo(n) == IF n = 0 THEN 0 ELSE Reserved(n) + ReservedUpTo(n - 1)

\* A connecting call starts only while the bounded supply of session ids covers
\* every attempt it and the calls under way can make.
SessionsAvailable ==
    (nextId - 1) + ReservedUpTo(NumTasks) + numProviders * MCP_CONNECTION_RETRIES
        <= MaxSessions

\* The record of a call that has just completed: who, which method, how it
\* ended ("returned", "raised", or "noop" for ensure_connected finding the pool
\* connected) and the locals it ended with.
Completed(t, o, kind, loc, cl, ci) ==
    [task |-> t, op |-> o, kind |-> kind, mcp_list |-> loc.mcp_list,
     created |-> loc.created, attempts |-> loc.attempts, waits |-> loc.waits,
     closing |-> cl, closeIdx |-> ci]

FreshLocals == [mcp_list |-> <<>>, created |-> {}, attempts |-> <<>>, waits |-> <<>>]

\* The last step completed no call.
NoEvent == Completed(0, "none", "none", FreshLocals, <<>>, 0)

\* ------------------------------------------------- data of the handlers
\* The five demo applications.  The first is the hardened variant.
SimpleVariants == {"agent_chat", "agent_chat_with_mcp", "agentic_duck", "ask_lisa"}

Variants == {"stock_market_chat"} \cup SimpleVariants

\* The task of the event loop that runs the request handler.
HandlerTask == 1

\* An optional text (str or None).  A text is a sequence of pieces; the empty
\* text is <<>>.
NoneStr == [present |-> FALSE, value |-> <<>>]

Str(v) == [present |-> TRUE, value |-> v]

\* Python truthiness of an optional text: None and "" are falsy.
Truthy(s) == s.present /\ s.value # <<>>

\* uuid.uuid4() seen as a source of tokens never produced before.
uuid4(k) == Str(<<"uuid", k>>)

\* A user input is a text given by its runs of equal characters, so that an
\* input of 10,001 characters is three fields and not 10,001.
Whitespace == {" ", "\t", "\n"}

Chars(c, n) == [c |-> c, n |-> n]

RECURSIVE len(_)
len(text) == IF text = <<>> THEN 0 ELSE Head(text).n + len(Tail(text))

RECURSIVE lstrip(_)
lstrip(text) ==
    IF text = <<>> THEN text
    ELSE IF Head(text).c \in Whitespace THEN lstrip(Tail(text))
    ELSE text

RECURSIVE rstrip(_)
rstrip(text) ==
    IF text = <<>> THEN text
    ELSE IF text[Len(text)].c \in Whitespace THEN rstrip(SubSeq(text, 1, Len(text) - 1))
    ELSE text

\* str.strip()
strip(text) == rstrip(lstrip(text))

\* The inputs a request is drawn from: no input parameter, the empty string,
\* blank strings, short texts, and texts around the length limit.
UserInputs ==
    {NoneStr,
     Str(<<>>),
     Str(<<Chars(" ", 1)>>),
     Str(<<Chars(" ", 2), Chars("\n", 1)>>),
     Str(<<Chars("x", 1)>>),
     Str(<<Chars(" ", 1), Chars("x", 3), Chars(" ", 1)>>),
     Str(<<Chars("x", MAX_INPUT_LENGTH - 1)>>),
     Str(<<Chars("x", MAX_INPUT_LENGTH)>>),
     Str(<<Chars("x", MAX_INPUT_LENGTH + 1)>>),
     Str(<<Chars(" ", 1), Chars("x", MAX_INPUT_LENGTH - 1)>>),
     Str(<<Chars(" ", 2), Chars("x", MAX_INPUT_LENGTH - 1)>>),
     Str(<<Chars(" ", MAX_INPUT_LENGTH + 1)>>)}

\* A length test that lets through one character less than the limit.
too_long_inclusive(n, limit) == n >= limit

\* len(user_input) > 10000
too_long(n, limit) == n > limit

\* utils/error_handler.py validate_input: (is_valid, error_message).
validate_input(user_input) ==
    IF ~user_input.present \/ len(user_input.value) = 0
    THEN [is_valid |-> FALSE, error |-> "No input provided"]
    ELSE IF len(strip(user_input.value)) = 0
    THEN [is_valid |-> FALSE, error |-> "Input cannot be empty"]
    ELSE IF too_long(len(user_input.value), MAX_INPUT_LENGTH)
    THEN [is_valid |-> FALSE, error |-> "Input is too long (maximum 10,000 characters)"]
    ELSE [is_valid |-> TRUE, error |-> ""]

\* The message of an exception is a sequence of words.
NoServersError == <<"Failed", "to", "connect", "to", "any", "MCP", "servers">>

\* The simpler demos hand the input to the run unread: one absent and one
\* present input are drawn for them.
DemoInputs == {NoneStr, Str(<<Chars("x", 1)>>)}

\* The exceptions agent construction, run start and the run itself raise.
Errors == {<<"context_length_exceeded">>, <<"Connection", "timeout">>, <<"boom">>}

\* str.lower() on a word.
lower_word(w) ==
    CASE w = "Failed" -> "failed"
      [] w = "MCP" -> "mcp"
      [] w = "Connection" -> "connection"
      [] w = "Unauthorized" -> "unauthorized"
      [] w = "Timeout" -> "timeout"
      [] OTHER -> w

lower(msg) == [i \in 1..Len(msg) |-> lower_word(msg[i])]

\* "sub in msg" for texts made of words.
Contains(msg, sub) ==
    \E i \in 0..(Len(msg) - Len(sub)) : SubSeq(msg, i + 1, i + Len(sub)) = sub

\* A classification that looks for a timeout before anything else.
get_user_friendly_message_timeout_first(error) ==
    IF Contains(lower(error), <<"timeout">>)
    THEN <<"Request timed out.">>
    ELSE IF Contains(lower(error), <<"network">>) \/ Contains(lower(error), <<"connection">>)
    THEN <<"I'm experiencing connectivity issues with the data provider.">>
    ELSE <<"I'm sorry, but something went wrong:">> \o error
             \o <<"Please try rephrasing your question">>

\* ErrorHandler.get_user_friendly_message
get_user_friendly_message(error) ==
    LET error_str == lower(error)
    IN  IF \/ Contains(error_str, <<"context_length_exceeded">>)
           \/ Contains(error_str, <<"maximum", "context", "length">>)
        THEN <<"The conversation history has exceeded the maximum token limit.">>
        ELSE IF Contains(error_str, <<"network">>) \/ Contains(error_str, <<"connection">>)
        THEN <<"I'm experiencing connectivity issues with the data provider.">>
        ELSE IF Contains(error_str, <<"rate", "limit">>)
        THEN <<"API rate limit reached.">>
        ELSE IF Contains(error_str, <<"403">>) \/ Contains(error_str, <<"forbidden">>)
        THEN <<"Access denied by the API.">>
        ELSE IF Contains(error_str, <<"401">>) \/ Contains(error_str, <<"unauthorized">>)
        THEN <<"Authentication failed.">>
        ELSE IF Contains(error_str, <<"timeout">>)
        THEN <<"Request timed out.">>
        ELSE <<"I'm sorry, but something went wrong:">> \o error
                 \o <<"Please try rephrasing your question">>

\* ErrorHandler.handle_streaming_error
handle_streaming_error(error) ==
    IF \/ Contains(error, <<"context_length_exceeded">>)
       \/ Contains(error, <<"maximum", "context", "length">>)
    THEN <<"**Context limit reached**.">>
    ELSE <<"**Error**:">> \o error \o <<"Please try again or rephrase your question.">>

\* The in-band error text of the simpler demos.
something_went_wrong(error) ==
    <<"I'm sorry, but something went wrong.", "(">> \o error \o <<")">>

\* The run events of agno: their tag and their content.  An agent's relay
\* passes RunContent on and a team's TeamRunContent; each is one of the other
\* tags to the other relay.
EventTags == {"RunContent", "TeamRunContent"}

Contents == {"a", "b"}

RunEvents == [event : EventTags, content : Contents]

\* The tag a demo's relay passes through: agents emit RunContent, teams
\* TeamRunContent.
ContentTag(v) ==
    IF v \in {"agentic_duck", "ask_lisa"} THEN "TeamRunContent" ELSE "RunContent"

NoRequest == [header |-> NoneStr, input |-> NoneStr]

NoAgent == [built |-> FALSE, request |-> 0, session_id |-> NoneStr, db |-> "none",
            tools |-> <<>>]

\* No history has been read.
NoLookup == [db |-> "none", session_id |-> NoneStr]

NoResponse == [status |-> 0, header |-> NoneStr, body |-> <<>>, stream |-> "none"]

\* No request has been received.
NoRequestYet ==
    /\ hpc = "idle"
    /\ request = NoRequest
    /\ session_id = NoneStr
    /\ minted = 0
    /\ requests = 0
    /\ ensured = FALSE
    /\ agent = NoAgent
    /\ run_started = FALSE
    /\ raised_at = "none"
    /\ consumed = <<>>
    /\ history_lookup = NoLookup
    /\ response = NoResponse

\* No exception has been handed to the error handler.
NoError ==
    /\ raised_error = <<>>
    /\ message = <<>>

\* A dict with no key, and d[k] = v.
EmptyDict == [k \in {} |-> 0]

Put(d, k, v) == [x \in DOMAIN d \cup {k} |-> IF x = k THEN v ELSE d[x]]

\* No report has been asked for since the last change.
NoReport == [date |-> "", count |-> 0, limit |-> 0, remaining |-> 0,
             endpoints |-> EmptyDict]

NoFile == [exists |-> FALSE, data |-> EmptyDict]

FirstDay == "2025-01-01"

NextDay == "2025-01-02"

\* APIUsageTracker() in a directory without a usage file.
NoUsage ==
    /\ usage_data = EmptyDict
    /\ storage = NoFile
    /\ today = FirstDay
    /\ usage_report = NoReport
    /\ allowed = "none"

\* The parts of the program outside the service and the request handlers
\* are at rest.
AuxIdle == NoError /\ NoUsage /\ writable = TRUE

\* ------------------------------------------------------------------ Init
\* MCPService.__init__: empty pool, free lock; no task has called anything.
ServiceIdle ==
    /\ mcp_tools_list = <<>>
    /\ locked = FALSE
    /\ waiters = <<>>
    /\ pc = [t \in Tasks |-> "idle"]
    /\ op = [t \in Tasks |-> "none"]
    /\ provider = [t \in Tasks |-> 0]
    /\ mcp_list = [t \in Tasks |-> <<>>]
    /\ attempts = [t \in Tasks |-> <<>>]
    /\ waits = [t \in Tasks |-> <<>>]
    /\ created = [t \in Tasks |-> {}]
    /\ closing = [t \in Tasks |-> <<>>]
    /\ closeIdx = [t \in Tasks |-> 0]
    /\ session = <<>>
    /\ nextId = 1
    /\ event = NoEvent

Init ==
    /\ MCP_CONNECTION_RETRIES \in 1..MaxRetries
    /\ MCP_RETRY_BACKOFF_BASE \in 0..MaxBase
    /\ ALPHA_VANTAGE_API_KEY \in BOOLEAN
    /\ numProviders \in 1..MaxProviders
    /\ ServiceIdle
    /\ variant = "stock_market_chat"
    /\ NoRequestYet
    /\ AuxIdle

\* ------------------------------------------------- code of the service
\* _connect_alpha_vantage handing back the MCPTools object whatever happened.
connect_result_always(mcp_tools, ok) == mcp_tools

\* What _connect_alpha_vantage returns once its retry loop is over: the
\* connected MCPTools, or None after the last failed attempt.
connect_result(mcp_tools, ok) == IF ok THEN mcp_tools ELSE None

\* _open_connections: "if <result>: mcp_list.append(<result>)"
append_if(l, r) == IF r # None THEN Append(l, r) ELSE l

\* _open_connections never raising.
open_connections_never_raises(l) == FALSE

\* _open_connections: "if not mcp_list: raise Exception(...)"
open_connections_raises(l) == Len(l) = 0

\* connect_all extending the pool it found.
assigned_pool_extend(old, l) == old \o l

\* connect_all: "self._mcp_tools_list = await self._open_connections()"
assigned_pool(old, l) == l

\* _open_connections filling the shared pool as it goes.
pool_during_open_shared(old, l) == l

\* The pool while _open_connections is suspended: mcp_list is a local, the
\* attribute is assigned only after the await has returned.
pool_during_open(old, l) == old

\* ensure_connected reconnecting on every call.
needs_reconnect_always(pool) == TRUE

\* ensure_connected: "if not self.is_connected"
needs_reconnect(pool) == ~(Len(pool) > 0)

\* disconnect_all keeping the sessions whose close() raised.
cleared_pool_keep_failed(cl, ss) == SelectSeq(cl, LAMBDA s : ss[s].closed = "raised")

\* disconnect_all: "self._mcp_tools_list = []" after the loop
cleared_pool(cl, ss) == <<>>

\* A loop that a raising close() ends: the handler sits around the loop.
after_close_raised_abort(i, n) == n

\* disconnect_all: the try/except is inside the for loop, so after close()
\* raised on element i the loop has visited i elements and goes on.
after_close_raised(i, n) == i

\* An acquire that does not look at the lock.
can_acquire_unguarded(lk, ws) == TRUE

\* asyncio.Lock.acquire returns at once, without suspending, iff the lock is
\* free and no task waits for it.
can_acquire(lk, ws) == ~lk /\ Len(ws) = 0

\* A lock taken with acquire() and given back by a release() at the end of the
\* body: an exception leaving the body skips the release.
lock_after_exit_unless_raised(kind) == kind = "raised"

\* "async with self._connection_lock": __aexit__ releases the lock when the body
\* returns and when it raises.
lock_after_exit(kind) == FALSE

\* _open_connections: provider 1 is Alpha Vantage, skipped without an attempt
\* when its API key is not configured.
FirstProvider == IF ALPHA_VANTAGE_API_KEY THEN 1 ELSE 2

LocalsOf(t) == [mcp_list |-> mcp_list[t], created |-> created[t],
                attempts |-> attempts[t], waits |-> waits[t]]

\* _open_connections from provider p on, up to the next suspension point: the
\* first attempt on provider p, or (no provider left) the end of connect_all.
ContinueOpen(t, o, p, loc, ss) ==
    IF p <= numProviders
    THEN /\ pc' = [pc EXCEPT ![t] = "connecting"]
         /\ provider' = [provider EXCEPT ![t] = p]
         /\ mcp_list' = [mcp_list EXCEPT ![t] = loc.mcp_list]
         /\ attempts' = [attempts EXCEPT ![t] = <<nextId>>]
         /\ waits' = [waits EXCEPT ![t] = <<>>]
         /\ created' = [created EXCEPT ![t] = loc.created \cup {nextId}]
         /\ session' = Append(ss, [prov |-> p, conn |-> "pending", closed |-> "no"])
         /\ nextId' = nextId + 1
         /\ locked' = TRUE
         /\ mcp_tools_list' = pool_during_open(mcp_tools_list, loc.mcp_list)
         /\ op' = [op EXCEPT ![t] = o]
         /\ event' = NoEvent
    ELSE /\ pc' = [pc EXCEPT ![t] = "idle"]
         /\ op' = [op EXCEPT ![t] = "none"]
         /\ provider' = [provider EXCEPT ![t] = 0]
         /\ mcp_list' = [mcp_list EXCEPT ![t] = <<>>]
         /\ attempts' = [attempts EXCEPT ![t] = <<>>]
         /\ waits' = [waits EXCEPT ![t] = <<>>]
         /\ created' = [created EXCEPT ![t] = {}]
         /\ session' = ss
         /\ nextId' = nextId
         /\ locked' = lock_after_exit(IF open_connections_raises(loc.mcp_list)
                                      THEN "raised" ELSE "returned")
         /\ IF open_connections_raises(loc.mcp_list)
            THEN /\ mcp_tools_list' = pool_during_open(mcp_tools_list, loc.mcp_list)
                 /\ event' = Completed(t, o, "raised", loc, <<>>, 0)
            ELSE /\ mcp_tools_list' = assigned_pool(mcp_tools_list, loc.mcp_list)
                 /\ event' = Completed(t, o, "returned", loc, <<>>, 0)

\* disconnect_all from the start of its critical section to the first close().
BeginClose(t, o) ==
    /\ closeIdx' = [closeIdx EXCEPT ![t] = 0]
    /\ UNCHANGED <<session, nextId>>
    /\ IF Len(mcp_tools_list) = 0
       THEN /\ pc' = [pc EXCEPT ![t] = "idle"]
            /\ op' = [op EXCEPT ![t] = "none"]
            /\ closing' = [closing EXCEPT ![t] = <<>>]
            /\ locked' = lock_after_exit("returned")
            /\ mcp_tools_list' = cleared_pool(mcp_tools_list, session)
            /\ event' = Completed(t, o, "returned", FreshLocals, mcp_tools_list, 0)
       ELSE /\ pc' = [pc EXCEPT ![t] = "closing"]
            /\ op' = [op EXCEPT ![t] = o]
            /\ closing' = [closing EXCEPT ![t] = mcp_tools_list]
            /\ locked' = TRUE
            /\ mcp_tools_list' = mcp_tools_list
            /\ event' = NoEvent

\* The call has to wait for the lock: the task joins the lock's waiters.
Enqueue(t, o) ==
    /\ waiters' = Append(waiters, t)
    /\ pc' = [pc EXCEPT ![t] = "wait_lock"]
    /\ op' = [op EXCEPT ![t] = o]
    /\ event' = NoEvent
    /\ UNCHANGED <<mcp_tools_list, locked, session, nextId, provider, mcp_list,
                   attempts, waits, created, closing, closeIdx>>

\* "async with self._connection_lock:" followed by the body of connect_all
AcquireAndConnect(t, o) ==
    IF can_acquire(locked, waiters)
    THEN /\ waiters' = waiters
         /\ ContinueOpen(t, o, FirstProvider, FreshLocals, session)
         /\ UNCHANGED <<closing, closeIdx>>
    ELSE Enqueue(t, o)

\* ------------------------------------------------------------- actions
\* A task calls mcp_service.connect_all().
connect_all(t) ==
    /\ pc[t] = "idle"
    /\ SessionsAvailable
    /\ AcquireAndConnect(t, "connect_all")
    /\ UNCHANGED <<cfgVars, chatVars, auxVars>>

\* A task calls mcp_service.ensure_connected().
ensure_connected(t) ==
    /\ pc[t] = "idle"
    /\ IF needs_reconnect(mcp_tools_list)
       THEN /\ SessionsAvailable
            /\ AcquireAndConnect(t, "ensure_connected")
       ELSE /\ event' = Completed(t, "ensure_connected", "noop", FreshLocals, <<>>, 0)
            /\ UNCHANGED <<mcp_tools_list, locked, waiters, pc, op, session, nextId,
                           provider, mcp_list, attempts, waits, created, closing,
                           closeIdx>>
    /\ UNCHANGED <<cfgVars, chatVars, auxVars>>

\* A task calls mcp_service.disconnect_all().
disconnect_all(t) ==
    /\ pc[t] = "idle"
    /\ IF can_acquire(locked, waiters)
       THEN /\ waiters' = waiters
            /\ BeginClose(t, "disconnect_all")
            /\ UNCHANGED <<provider, mcp_list, attempts, waits, created>>
       ELSE Enqueue(t, "disconnect_all")
    /\ UNCHANGED <<cfgVars, chatVars, auxVars>>

\* The lock was released and the first waiter resumes inside acquire(): it
\* takes the lock and runs the body of its call up to the next suspension.
lock_acquired(t) ==
    /\ pc[t] = "wait_lock"
    /\ ~locked
    /\ Len(waiters) > 0
    /\ Head(waiters) = t
    /\ waiters' = Tail(waiters)
    /\ IF IsConnectOp(op[t])
       THEN /\ ContinueOpen(t, op[t], FirstProvider, FreshLocals, session)
            /\ UNCHANGED <<closing, closeIdx>>
       ELSE /\ BeginClose(t, op[t])
            /\ UNCHANGED <<provider, mcp_list, attempts, waits, created>>
    /\ UNCHANGED <<cfgVars, chatVars, auxVars>>

\* "await mcp_tools.connect()" returns: the retry loop ends with this object.
connect_returns(t) ==
    /\ pc[t] = "connecting"
    /\ LET sid == attempts[t][Len(attempts[t])]
           ss  == [session EXCEPT ![sid].conn = "ok"]
           l   == append_if(mcp_list[t], connect_result(sid, TRUE))
       IN  ContinueOpen(t, op[t], provider[t] + 1,
                        [LocalsOf(t) EXCEPT !.mcp_list = l], ss)
    /\ UNCHANGED <<waiters, closing, closeIdx, cfgVars, chatVars, auxVars>>

\* "await mcp_tools.connect()" raises: tenacity stops after the configured
\* number of attempts, otherwise it sleeps the computed wait.
connect_raises(t) ==
    /\ pc[t] = "connecting"
    /\ LET sid == attempts[t][Len(attempts[t])]
           ss  == [session EXCEPT ![sid].conn = "failed"]
           l   == append_if(mcp_list[t], connect_result(sid, FALSE))
       IN  IF stop_after_attempt(attempt_number(t))
           THEN ContinueOpen(t, op[t], provider[t] + 1,
                             [LocalsOf(t) EXCEPT !.mcp_list = l], ss)
           ELSE /\ pc' = [pc EXCEPT ![t] = "sleeping"]
                /\ waits' = [waits EXCEPT ![t] = Append(@, RetryWait(attempt_number(t)))]
                /\ session' = ss
                /\ event' = NoEvent
                /\ UNCHANGED <<mcp_tools_list, locked, op, provider, mcp_list,
                               attempts, created, nextId>>
    /\ UNCHANGED <<waiters, closing, closeIdx, cfgVars, chatVars, auxVars>>

\* The backoff sleep is over: the next attempt builds a new MCPTools object.
sleep_done(t) ==
    /\ pc[t] = "sleeping"
    /\ pc' = [pc EXCEPT ![t] = "connecting"]
    /\ attempts' = [attempts EXCEPT ![t] = Append(@, nextId)]
    /\ created' = [created EXCEPT ![t] = @ \cup {nextId}]
    /\ session' = Append(session, [prov |-> provider[t], conn |-> "pending",
                                   closed |-> "no"])
    /\ nextId' = nextId + 1
    /\ event' = NoEvent
    /\ UNCHANGED <<mcp_tools_list, locked, waiters, op, provider, mcp_list, waits,
                   closing, closeIdx, cfgVars, chatVars, auxVars>>

\* "await mcp_tools.close()" is over, by returning or by raising res.
CloseDone(t, res) ==
    /\ LET i       == closeIdx[t] + 1
           n       == Len(closing[t])
           ss      == [session EXCEPT ![closing[t][i]].closed = res]
           visited == IF res = "raised" THEN after_close_raised(i, n) ELSE i
       IN  /\ session' = ss
           /\ IF visited >= n
              THEN /\ pc' = [pc EXCEPT ![t] = "idle"]
                   /\ op' = [op EXCEPT ![t] = "none"]
                   /\ closing' = [closing EXCEPT ![t] = <<>>]
                   /\ closeIdx' = [closeIdx EXCEPT ![t] = 0]
                   /\ locked' = lock_after_exit("returned")
                   /\ mcp_tools_list' = cleared_pool(closing[t], ss)
                   /\ event' = Completed(t, op[t], "returned", FreshLocals,
                                         closing[t], visited)
              ELSE /\ closeIdx' = [closeIdx EXCEPT ![t] = visited]
                   /\ event' = NoEvent
                   /\ UNCHANGED <<pc, op, closing, locked, mcp_tools_list>>
    /\ UNCHANGED <<waiters, provider, mcp_list, attempts, waits, created, nextId,
                   cfgVars, chatVars, auxVars>>

close_returns(t) ==
    /\ pc[t] = "closing"
    /\ CloseDone(t, "ok")

close_raises(t) ==
    /\ pc[t] = "closing"
    /\ CloseDone(t, "raised")

Next ==
    \/ \E t \in Tasks : connect_all(t)
    \/ \E t \in Tasks : ensure_connected(t)
    \/ \E t \in Tasks : disconnect_all(t)
    \/ \E t \in Tasks : lock_acquired(t)
    \/ \E t \in Tasks : connect_returns(t)
    \/ \E t \in Tasks : connect_raises(t)
    \/ \E t \in Tasks : sleep_done(t)
    \/ \E t \in Tasks : close_returns(t)
    \/ \E t \in Tasks : close_raises(t)

Spec == Init /\ [][Next]_vars

\* Task t is resumed: what it awaits is over.  The four cases exclude one
\* another by pc[t].
Resumed(t) ==
    \/ lock_acquired(t)
    \/ connect_returns(t) \/ connect_raises(t)
    \/ sleep_done(t)
    \/ close_returns(t) \/ close_raises(t)

\* Every connect(), close() and backoff sleep under way terminates, and the
\* event loop resumes the first waiter of a free lock.  Nothing obliges a
\* caller to start a call.
Fairness == \A t \in Tasks : WF_vars(Resumed(t))

\* The single shipped provider with or without its API key, the shipped
\* backoff base, any number of connection attempts.
FairInit ==
    /\ Init
    /\ numProviders = 1
    /\ MCP_RETRY_BACKOFF_BASE = DEFAULT_MCP_RETRY_BACKOFF_BASE

\* Callers of connect_all() and disconnect_all().
FairNext ==
    \/ \E t \in Tasks : connect_all(t)
    \/ \E t \in Tasks : disconnect_all(t)
    \/ \E t \in Tasks : lock_acquired(t)
    \/ \E t \in Tasks : connect_returns(t)
    \/ \E t \in Tasks : connect_raises(t)
    \/ \E t \in Tasks : sleep_done(t)
    \/ \E t \in Tasks : close_returns(t)
    \/ \E t \in Tasks : close_raises(t)

FairSpec == FairInit /\ [][FairNext]_vars /\ Fairness

TypeOK ==
    /\ pc \in [Tasks -> {"idle", "wait_lock", "connecting", "sleeping", "closing"}]
    /\ locked \in BOOLEAN
    /\ nextId = Len(session) + 1
    /\ \A i \in 1..Len(mcp_tools_list) : mcp_tools_list[i] \in 1..Len(session)

\* ------------------------------------------------ the request handlers
\* Keeping the header whatever it holds.
resolve_session_id_verbatim(header, fresh) == header

\* request.headers.get('X-Session-ID') or str(uuid.uuid4())
resolve_session_id(header, fresh) == IF Truthy(header) THEN header ELSE fresh

\* The X-Session-ID headers a client sends: none, an empty one, one of its own
\* making, or an identifier an earlier response gave it.
Headers == {NoneStr, Str(<<>>), Str(<<"client", 1>>)} \cup {uuid4(k) : k \in 1..minted}

HeaderValues == {NoneStr, Str(<<>>), Str(<<"client", 1>>)}
                    \cup {uuid4(k) : k \in 1..MaxRequests}

\* A handler that goes on whatever the validation said.
validation_gate_open(is_valid) == TRUE

\* "if not is_valid: raise ValidationError(...)": the handler goes on iff valid.
validation_gate(is_valid) == is_valid

\* One except clause for every exception.
except_status_generic(exc_type) == 500

\* The status of the except clause that catches the exception.
except_status(exc_type) == IF exc_type = "ValidationError" THEN 400 ELSE 500

\* The response built in an except clause of the hardened handler; the header
\* is set "if session_id".
error_response(exc_type, sid, text) ==
    [status |-> except_status(exc_type),
     header |-> IF Truthy(sid) THEN sid ELSE NoneStr,
     body   |-> <<text>>,
     stream |-> "complete"]

\* The response built in the except clause of a simpler demo: default status.
demo_error_response(sid, error) ==
    [status |-> 200, header |-> sid, body |-> <<something_went_wrong(error)>>,
     stream |-> "complete"]

\* Response(generate(), ...) with the header set: nothing is streamed yet.
streaming_response(sid) ==
    [status |-> 200, header |-> sid, body |-> <<>>, stream |-> "open"]

\* A relay that passes on the content of every event.
relay_chunk_any(body, chunk, tag) == Append(body, <<chunk.content>>)

\* The body of the relay loop: "if chunk.event == tag: yield chunk.content".
relay_chunk(body, chunk, tag) ==
    IF chunk.event = tag THEN Append(body, <<chunk.content>>) ELSE body

\* An except clause in generate() that yields nothing.
generate_except_silent(error) == <<>>

\* What the except clause of the hardened generate() yields.
generate_except(error) == <<handle_streaming_error(error)>>

\* An agent bound to an identity of its own.
agent_session_id_own(sid) == uuid4(0)

\* Agent(..., session_id=session_id, db=<the shared InMemoryDb>)
agent_session_id(sid) == sid

\* An agent that is given no tools.
agent_tools_none(pool) == <<>>

\* tools=mcp_tools_list if mcp_tools_list else []
agent_tools(pool) == IF Len(pool) > 0 THEN pool ELSE <<>>

\* agno, add_history_to_context=True: the run reads the stored runs of the
\* agent's session from the agent's db before it calls the model.
read_history(a) == [db |-> a.db, session_id |-> a.session_id]

\* The first statements of every handler: the request is read and the
\* conversation identity resolved.
Receive(hdr, inp) ==
    /\ request' = [header |-> hdr, input |-> inp]
    /\ session_id' = resolve_session_id(hdr, uuid4(minted + 1))
    /\ minted' = IF Truthy(hdr) THEN minted ELSE minted + 1
    /\ requests' = requests + 1
    /\ consumed' = <<>>

\* Agent construction and run start, up to "return response" or to the except
\* clause; outcome names the call that raises, if any.
ConstructAndRun(n, sid, outcome, err_response) ==
    /\ agent' = IF outcome = "create_agent" THEN NoAgent
                ELSE [built |-> TRUE, request |-> n,
                      session_id |-> agent_session_id(sid), db |-> "memory_db",
                      tools |-> agent_tools(mcp_tools_list)]
    /\ history_lookup' = IF outcome = "ok" THEN read_history(agent')
                         ELSE NoLookup
    /\ run_started' = (outcome = "ok")
    /\ raised_at' = IF outcome = "ok" THEN "none" ELSE outcome
    /\ hpc' = IF outcome = "ok" THEN "streaming" ELSE "done"
    /\ response' = IF outcome = "ok" THEN streaming_response(sid)
                   ELSE err_response

Outcomes == {"ok", "create_agent", "run"}

\* Stock Market Chat: a request arrives at streaming_chat, which runs up to
\* its first suspension, "await mcp_service.ensure_connected()", or to the
\* response of the ValidationError clause.
streaming_chat(hdr, inp) ==
    /\ variant = "stock_market_chat"
    /\ hpc = "idle"
    /\ requests < MaxRequests
    /\ hdr \in Headers
    /\ is_connected \/ SessionsAvailable
    /\ Receive(hdr, inp)
    /\ ensured' = FALSE
    /\ agent' = NoAgent
    /\ run_started' = FALSE
    /\ UNCHANGED history_lookup
    /\ LET v == validate_input(inp)
       IN  IF validation_gate(v.is_valid)
           THEN /\ hpc' = "ensure_connected"
                /\ raised_at' = "none"
                /\ response' = NoResponse
           ELSE /\ hpc' = "done"
                /\ raised_at' = "validation"
                /\ response' = error_response("ValidationError", session_id',
                                              <<"Invalid input:", v.error>>)
    /\ event' = NoEvent
    /\ UNCHANGED <<auxVars, svcVars, variant>>

\* The handler's call of ensure_connected() starts.
call_ensure_connected ==
    /\ hpc = "ensure_connected"
    /\ event.task # HandlerTask
    /\ ensure_connected(HandlerTask)

\* ensure_connected() returned: the agent is created with mcp_service.tools,
\* the run is started and the streaming response returned, unless one of the
\* two raises and the handler answers from its "except Exception" clause.
ensure_connected_returned(outcome, error) ==
    /\ hpc = "ensure_connected"
    /\ event.task = HandlerTask
    /\ event.op = "ensure_connected"
    /\ event.kind \in {"returned", "noop"}
    /\ ensured' = TRUE
    /\ ConstructAndRun(requests, session_id, outcome,
                       error_response("Exception", session_id,
                                      get_user_friendly_message(error)))
    /\ event' = NoEvent
    /\ UNCHANGED <<auxVars, svcVars, variant, request, session_id, minted, requests, consumed>>

\* ensure_connected() raised: the handler answers from "except Exception".
ensure_connected_raised ==
    /\ hpc = "ensure_connected"
    /\ event.task = HandlerTask
    /\ event.op = "ensure_connected"
    /\ event.kind = "raised"
    /\ ensured' = TRUE
    /\ raised_at' = "ensure_connected"
    /\ hpc' = "done"
    /\ response' = error_response("Exception", session_id,
                                  get_user_friendly_message(NoServersError))
    /\ event' = NoEvent
    /\ UNCHANGED <<auxVars, svcVars, variant, request, session_id, minted, requests, consumed,
                   agent, run_started, history_lookup>>

\* Agent Chat, Agent Chat with MCP, Agentic Duck, Ask LISA: the whole handler,
\* which never suspends before it returns its response.
demo_streaming_chat(hdr, inp, outcome, error) ==
    /\ variant \in SimpleVariants
    /\ hpc = "idle"
    /\ requests < MaxRequests
    /\ hdr \in Headers
    /\ Receive(hdr, inp)
    /\ ensured' = FALSE
    /\ LET sid == resolve_session_id(hdr, uuid4(minted + 1))
       IN  ConstructAndRun(requests + 1, sid, outcome, demo_error_response(sid, error))
    /\ UNCHANGED <<auxVars, svcVars, event, variant>>

\* generate() asks the run for its next event and relays it.
relay_event(chunk) ==
    /\ hpc = "streaming"
    /\ Len(consumed) < MaxChunks
    /\ consumed' = Append(consumed, chunk)
    /\ response' = [response EXCEPT
                        !.body = relay_chunk(@, chunk, ContentTag(variant))]
    /\ UNCHANGED <<auxVars, svcVars, event, variant, hpc, request, session_id, minted,
                   requests, ensured, agent, run_started, raised_at, history_lookup>>

\* The run is exhausted: generate() returns and the stream ends.
relay_end ==
    /\ hpc = "streaming"
    /\ hpc' = "done"
    /\ response' = [response EXCEPT !.stream = "complete"]
    /\ UNCHANGED <<auxVars, svcVars, event, variant, request, session_id, minted, requests,
                   ensured, agent, run_started, raised_at, consumed, history_lookup>>

\* The run raises while generate() asks for its next event.  The hardened
\* generate() catches it and yields an error text; the generate() of the
\* simpler demos has no except clause, so the exception ends the stream.
relay_raises(error) ==
    /\ hpc = "streaming"
    /\ hpc' = "done"
    /\ raised_at' = "stream"
    /\ response' = IF variant = "stock_market_chat"
                   THEN [response EXCEPT !.body = @ \o generate_except(error),
                                         !.stream = "complete"]
                   ELSE [response EXCEPT !.stream = "aborted"]
    /\ UNCHANGED <<auxVars, svcVars, event, variant, request, session_id, minted, requests,
                   ensured, agent, run_started, consumed, history_lookup>>

\* The response has been sent in full (or its stream has ended): the handler's
\* locals are gone and the next request can be taken.
response_sent ==
    /\ hpc = "done"
    /\ hpc' = "idle"
    /\ request' = NoRequest
    /\ session_id' = NoneStr
    /\ ensured' = FALSE
    /\ agent' = NoAgent
    /\ run_started' = FALSE
    /\ raised_at' = "none"
    /\ consumed' = <<>>
    /\ history_lookup' = NoLookup
    /\ response' = NoResponse
    /\ UNCHANGED <<auxVars, svcVars, event, variant, minted, requests>>

HandlerInit ==
    /\ MCP_CONNECTION_RETRIES = DEFAULT_MCP_CONNECTION_RETRIES
    /\ MCP_RETRY_BACKOFF_BASE = DEFAULT_MCP_RETRY_BACKOFF_BASE
    /\ ALPHA_VANTAGE_API_KEY = TRUE
    /\ numProviders = 1
    /\ ServiceIdle
    /\ variant \in Variants
    /\ NoRequestYet
    /\ AuxIdle

HandlerNext ==
    \/ \E hdr \in HeaderValues, inp \in UserInputs : streaming_chat(hdr, inp)
    \/ call_ensure_connected
    \/ connect_returns(HandlerTask)
    \/ connect_raises(HandlerTask)
    \/ sleep_done(HandlerTask)
    \/ \E outcome \in Outcomes, error \in Errors : ensure_connected_returned(outcome, error)
    \/ ensure_connected_raised
    \/ \E hdr \in HeaderValues, inp \in DemoInputs, outcome \in Outcomes, error \in Errors :
           demo_streaming_chat(hdr, inp, outcome, error)
    \/ \E chunk \in RunEvents : relay_event(chunk)
    \/ relay_end
    \/ \E error \in Errors : relay_raises(error)
    \/ response_sent

HandlerSpec == HandlerInit /\ [][HandlerNext]_vars

\* ------------------------------------- the handler beside other callers
\* A second task of the event loop that calls the connection manager while
\* the handler runs: the startup hook (connect_all), the shutdown hook
\* (disconnect_all).
OtherTask == 2

\* ensure_connected() has completed in the handler's task and the handler has
\* not yet reached its next suspension point: the return of a coroutine does
\* not pass through the event loop, so no other task runs here.
HandlerResumes == hpc = "ensure_connected" /\ event.task = HandlerTask

other_connect_all == ~HandlerResumes /\ connect_all(OtherTask)

other_disconnect_all == ~HandlerResumes /\ disconnect_all(OtherTask)

other_lock_acquired == ~HandlerResumes /\ lock_acquired(OtherTask)

other_connect_returns == ~HandlerResumes /\ connect_returns(OtherTask)

other_connect_raises == ~HandlerResumes /\ connect_raises(OtherTask)

other_sleep_done == ~HandlerResumes /\ sleep_done(OtherTask)

other_close_returns == ~HandlerResumes /\ close_returns(OtherTask)

other_close_raises == ~HandlerResumes /\ close_raises(OtherTask)

\* The shipped provider and backoff base, any number of connection attempts.
RaceInit ==
    /\ Init
    /\ numProviders = 1
    /\ ALPHA_VANTAGE_API_KEY
    /\ MCP_RETRY_BACKOFF_BASE = DEFAULT_MCP_RETRY_BACKOFF_BASE

RaceNext ==
    \/ \E inp \in DemoInputs : streaming_chat(NoneStr, inp)
    \/ call_ensure_connected
    \/ lock_acquired(HandlerTask)
    \/ connect_returns(HandlerTask)
    \/ connect_raises(HandlerTask)
    \/ sleep_done(HandlerTask)
    \/ \E outcome \in Outcomes : ensure_connected_returned(outcome, <<"boom">>)
    \/ ensure_connected_raised
    \/ relay_end
    \/ response_sent
    \/ other_connect_all
    \/ other_disconnect_all
    \/ other_lock_acquired
    \/ other_connect_returns
    \/ other_connect_raises
    \/ other_sleep_done
    \/ other_close_returns
    \/ other_close_raises

RaceSpec == RaceInit /\ [][RaceNext]_vars

\* ------------------------------------------------- the error handler
\* The words exception messages are made of: the keywords of every category,
\* some of them capitalised, and a word that belongs to none.
Words ==
    {"context_length_exceeded", "maximum", "context", "length", "network",
     "Connection", "rate", "limit", "403", "forbidden", "401", "Unauthorized",
     "Timeout", "boom"}

\* Every message of at most MaxWords words.
ErrorMessages == UNION {[1..n -> Words] : n \in 0..MaxWords}

ErrorInit ==
    /\ MCP_CONNECTION_RETRIES = DEFAULT_MCP_CONNECTION_RETRIES
    /\ MCP_RETRY_BACKOFF_BASE = DEFAULT_MCP_RETRY_BACKOFF_BASE
    /\ ALPHA_VANTAGE_API_KEY = TRUE
    /\ numProviders = 1
    /\ ServiceIdle
    /\ variant = "stock_market_chat"
    /\ NoRequestYet
    /\ raised_error \in ErrorMessages
    /\ message = <<>>
    /\ NoUsage
    /\ writable = TRUE

\* output = error_handler.get_user_friendly_message(e)
user_friendly_message ==
    /\ message = <<>>
    /\ message' = get_user_friendly_message(raised_error)
    /\ UNCHANGED <<raised_error, usageVars, svcVars, event, chatVars>>

ErrorNext == user_friendly_message

ErrorSpec == ErrorInit /\ [][ErrorNext]_vars

\* ------------------------------------------------- the usage tracker
Endpoints == {"unknown", "GLOBAL_QUOTE"}

RECURSIVE SumOver(_, _)
\* The sum of d[k] over the keys k in ks.
SumOver(d, ks) ==
    IF ks = {} THEN 0
    ELSE LET k == CHOOSE x \in ks : TRUE
         IN  d[k] + SumOver(d, ks \ {k})

\* The calls recorded in a usage dict, over all its dates.
Recorded(data) == SumOver([d \in DOMAIN data |-> data[d].count], DOMAIN data)

\* A remaining allowance that is the plain difference.
remaining_signed(count) == DAILY_LIMIT - count

\* get_today_usage: "remaining": max(0, 25 - count)
remaining(count) == Max2(0, DAILY_LIMIT - count)

\* _load_usage: the file's content, {} if there is no file or it cannot be
\* read as JSON.
load_usage(file, readable) ==
    IF file.exists /\ readable THEN file.data ELSE EmptyDict

\* _save_usage: the file is rewritten with the whole dict; a failure is
\* logged and leaves the file as it was.
save_usage(file, data, ok) ==
    IF ok THEN [exists |-> TRUE, data |-> data] ELSE file

\* record_api_call, the dict after the call.  The two timestamps of an entry
\* are left out: nothing reads them but the printed summary.
recorded(data, day, endpoint) ==
    LET entry == IF day \in DOMAIN data THEN data[day]
                 ELSE [count |-> 0, endpoints |-> EmptyDict]
        eps   == IF endpoint \in DOMAIN entry.endpoints THEN entry.endpoints
                 ELSE Put(entry.endpoints, endpoint, 0)
    IN  Put(data, day, [count |-> entry.count + 1,
                        endpoints |-> [eps EXCEPT ![endpoint] = @ + 1]])

\* get_today_usage, the dict it returns (without percentage and timestamps).
today_usage(data, day) ==
    IF day \notin DOMAIN data
    THEN [date |-> day, count |-> 0, limit |-> DAILY_LIMIT, remaining |-> DAILY_LIMIT,
          endpoints |-> EmptyDict]
    ELSE [date |-> day, count |-> data[day].count, limit |-> DAILY_LIMIT,
          remaining |-> remaining(data[day].count),
          endpoints |-> data[day].endpoints]

\* api_usage_tracker.record_api_call(endpoint)
record_api_call(endpoint) ==
    /\ Recorded(usage_data) < MaxCalls
    /\ usage_data' = recorded(usage_data, today, endpoint)
    /\ storage' = save_usage(storage, usage_data', writable)
    /\ usage_report' = NoReport
    /\ allowed' = "none"
    /\ UNCHANGED <<writable, today, errVars, svcVars, event, chatVars>>

\* api_usage_tracker.get_today_usage()
get_today_usage ==
    /\ usage_report = NoReport
    /\ usage_report' = today_usage(usage_data, today)
    /\ UNCHANGED <<usage_data, storage, writable, today, allowed, errVars, svcVars,
                   event, chatVars>>

\* api_usage_tracker.can_make_request()
can_make_request ==
    /\ allowed = "none"
    /\ allowed' = IF today_usage(usage_data, today).remaining > 0 THEN "yes" ELSE "no"
    /\ UNCHANGED <<usage_data, storage, writable, today, usage_report, errVars,
                   svcVars, event, chatVars>>

\* Midnight: date.today() changes.
midnight ==
    /\ today = FirstDay
    /\ today' = NextDay
    /\ usage_report' = NoReport
    /\ allowed' = "none"
    /\ UNCHANGED <<usage_data, storage, writable, errVars, svcVars, event, chatVars>>

\* The process is started again: APIUsageTracker() loads the file.
restart(readable) ==
    /\ usage_data' = load_usage(storage, readable)
    /\ usage_report' = NoReport
    /\ allowed' = "none"
    /\ UNCHANGED <<storage, writable, today, errVars, svcVars, event, chatVars>>

UsageInit ==
    /\ MCP_CONNECTION_RETRIES = DEFAULT_MCP_CONNECTION_RETRIES
    /\ MCP_RETRY_BACKOFF_BASE = DEFAULT_MCP_RETRY_BACKOFF_BASE
    /\ ALPHA_VANTAGE_API_KEY = TRUE
    /\ numProviders = 1
    /\ ServiceIdle
    /\ variant = "stock_market_chat"
    /\ NoRequestYet
    /\ NoError
    /\ NoUsage
    /\ writable \in BOOLEAN

UsageNext ==
    \/ \E endpoint \in Endpoints : record_api_call(endpoint)
    \/ get_today_usage
    \/ can_make_request
    \/ midnight
    \/ \E readable \in BOOLEAN : restart(readable)

UsageSpec == UsageInit /\ [][UsageNext]_vars

\* ---------------------------------------------------------- properties
ConnectCompleted(e) == IsConnectOp(e.op) /\ e.kind \in {"returned", "raised"}

DisconnectCompleted(e) == e.op = "disconnect_all" /\ e.kind \in {"returned", "raised"}

Succeeded(c) == {s \in c : session[s].conn = "ok"}

AllFailed(c) == \A s \in c : session[s].conn = "failed"

OfProvider(c, p) == {s \in c : session[s].prov = p}

NonDecreasing(w) == \A i \in 1..(Len(w) - 1) : w[i] <= w[i + 1]

\* The configuration the repository ships: _open_connections connects the one
\* provider, Alpha Vantage, and its API key is set.
ShippedProviders == numProviders = 1 /\ ALPHA_VANTAGE_API_KEY

\* C1: in every reachable state the pool is empty or holds only sessions whose
\* connect() returned successfully; a session whose attempt failed (or is still
\* pending) is never in the pool.
C1_PoolOnlyConnected ==
    \A i \in 1..Len(mcp_tools_list) : session[mcp_tools_list[i]].conn = "ok"

C1_Witness ==
    /\ Len(mcp_tools_list) > 0
    /\ \E s \in 1..Len(session) : session[s].conn = "failed"
    /\ \E t \in Tasks : pc[t] = "connecting"

C3_ReturnedPool ==
    (ConnectCompleted(event) /\ event.kind = "returned")
        => /\ Len(mcp_tools_list) > 0
           /\ SeqToSet(mcp_tools_list) = Succeeded(event.created)
           /\ Len(mcp_tools_list) = Cardinality(Succeeded(event.created))
           /\ \A p \in 1..numProviders :
                  Cardinality(OfProvider(SeqToSet(mcp_tools_list), p)) =
                      (IF OfProvider(Succeeded(event.created), p) # {} THEN 1 ELSE 0)

C3_Witness ==
    /\ ConnectCompleted(event)
    /\ event.kind = "returned"
    /\ Len(mcp_tools_list) >= 2
    /\ \E s \in event.created : session[s].conn = "failed"

\* C4: a connect_all() call makes at most MCP_CONNECTION_RETRIES attempts on
\* each provider and makes no further attempt on a provider once one succeeded.
AttemptsBounded(c) ==
    \A p \in 1..numProviders :
        /\ Cardinality(OfProvider(c, p)) <= MCP_CONNECTION_RETRIES
        /\ \A s \in OfProvider(c, p) :
               session[s].conn = "ok" => \A u \in OfProvider(c, p) : u <= s

C4_AtMostNAttempts ==
    /\ \A t \in Tasks : AttemptsBounded(created[t])
    /\ \A t \in Tasks : attempt_number(t) <= MCP_CONNECTION_RETRIES
    /\ AttemptsBounded(event.created)

C4_Witness ==
    /\ ConnectCompleted(event)
    /\ event.kind = "raised"
    /\ MCP_CONNECTION_RETRIES >= 2
    /\ Len(event.attempts) = MCP_CONNECTION_RETRIES
    /\ AllFailed(event.created)

\* C5 as stated: the waits between consecutive attempts on a provider are
\* non-decreasing and none exceeds the cap base^(N-1) (read on the shipped
\* single provider).
C5_Original ==
    ShippedProviders
        => \A t \in Tasks :
               /\ NonDecreasing(waits[t])
               /\ \A i \in 1..Len(waits[t]) : waits[t][i] <= WaitCap

\* C5 amended: the waits between consecutive attempts on a provider are
\* non-decreasing and none exceeds the larger of the cap base^(N-1) and the
\* configured minimum wait of 1 (the minimum wins when the cap is below it).
C5_Amended ==
    /\ \A t \in Tasks :
           /\ NonDecreasing(waits[t])
           /\ \A i \in 1..Len(waits[t]) : waits[t][i] <= Max2(1, WaitCap)
    /\ NonDecreasing(event.waits)
    /\ \A i \in 1..Len(event.waits) : event.waits[i] <= Max2(1, WaitCap)

C5_Witness ==
    \E t \in Tasks :
        /\ Len(waits[t]) >= 2
        /\ waits[t][2] = WaitCap
        /\ WaitCap < Pow(2, 1)

\* Task t, idle before the step, calls method o in this step.
Calls(t, o) ==
    /\ pc[t] = "idle"
    /\ \/ op'[t] = o
       \/ event'.task = t /\ event'.op = o

\* C6: ensure_connected() called on a non-empty pool creates no session, does
\* not touch the lock or its waiters, leaves the pool unchanged and returns
\* without suspending.
C6_EnsureConnectedNoop ==
    [][\A t \in Tasks :
          (Calls(t, "ensure_connected") /\ Len(mcp_tools_list) > 0)
              => /\ UNCHANGED <<mcp_tools_list, locked, waiters, session, nextId, pc>>
                 /\ event'.kind = "noop"]_vars

C6_Witness ==
    /\ event.kind = "noop"
    /\ event.op = "ensure_connected"
    /\ Len(mcp_tools_list) > 0
    /\ locked
    /\ \E t \in Tasks : InConnect(t)

\* C7: when disconnect_all() completes the pool is empty, however many of the
\* close() calls raised.
C7_DisconnectEmptiesPool ==
    DisconnectCompleted(event) => Len(mcp_tools_list) = 0

C7_Witness ==
    /\ DisconnectCompleted(event)
    /\ \E i \in 1..Len(event.closing) : session[event.closing[i]].closed = "raised"

\* C8: disconnect_all() attempts close() on every session that was in the pool
\* when it entered its critical section, also after a close() that raised, and
\* it never raises to its caller.
C8_EverySessionClosed ==
    /\ \A t \in Tasks :
           pc[t] = "closing"
               => /\ closing[t] = mcp_tools_list
                  /\ closeIdx[t] < Len(closing[t])
                  /\ \A i \in 1..closeIdx[t] : session[closing[t][i]].closed # "no"
    /\ DisconnectCompleted(event)
           => /\ event.kind = "returned"
              /\ event.closeIdx = Len(event.closing)
              /\ \A i \in 1..Len(event.closing) :
                     session[event.closing[i]].closed # "no"

C8_Witness ==
    /\ DisconnectCompleted(event)
    /\ Len(event.closing) >= 2
    /\ session[event.closing[1]].closed = "raised"
    /\ session[event.closing[2]].closed = "ok"

\* C9: at most one task is inside the critical section of connect_all() or
\* disconnect_all(), and it holds the lock.
C9_MutualExclusion ==
    /\ Cardinality({t \in Tasks : InCritical(t)}) <= 1
    /\ (\E t \in Tasks : InCritical(t)) => locked

C9_Witness ==
    \E t, u \in Tasks :
        /\ InConnect(t)
        /\ pc[u] = "wait_lock"
        /\ op[u] = "disconnect_all"
        /\ Len(mcp_tools_list) > 0

\* C10: while a connect_all() is suspended inside its critical section the
\* tools property keeps returning the pool from before that call; the step that
\* ends the call either leaves that pool or installs the complete new list.
C10_NoPartialPool ==
    [][/\ (\E t \in Tasks : InConnect(t)') => tools' = tools
       /\ ConnectCompleted(event')
              => \/ tools' = tools
                 \/ /\ tools' = event'.mcp_list
                    /\ SeqToSet(tools') = {s \in event'.created : session'[s].conn = "ok"}]_vars

C10_Witness ==
    \E t \in Tasks :
        /\ InConnect(t)
        /\ Len(mcp_list[t]) > 0
        /\ Len(tools) > 0
        /\ tools # mcp_list[t]

\* ------------------------------------------ concurrent ensure_connected
\* The service as the request handlers use it: every caller calls
\* ensure_connected(); nobody calls connect_all() or disconnect_all() directly.
NextEnsure ==
    \/ \E t \in Tasks : ensure_connected(t)
    \/ \E t \in Tasks : lock_acquired(t)
    \/ \E t \in Tasks : connect_returns(t)
    \/ \E t \in Tasks : connect_raises(t)
    \/ \E t \in Tasks : sleep_done(t)

SpecEnsure == Init /\ [][NextEnsure]_vars

\* C11: with only ensure_connected() callers, started concurrently on an empty
\* pool, the provider is connected once: no caller opens a session while the
\* pool is already populated, and at most one session ever connects.
C11_ConnectedOnce ==
    ShippedProviders
        => /\ \A t \in Tasks : InConnect(t) => Len(mcp_tools_list) = 0
           /\ Cardinality({s \in 1..Len(session) : session[s].conn = "ok"}) <= 1

\* ------------------------------------------------- connection states
\* The state of the connection manager as its callers can tell it.
ConnState ==
    IF \E t \in Tasks : InConnect(t) THEN "Connecting"
    ELSE IF Len(mcp_tools_list) > 0 THEN "Connected"
    ELSE "Disconnected"

\* C12 as stated: the only transitions are Disconnected -> Connecting,
\* Connecting -> Connected, Connecting -> Disconnected and
\* Connected -> Disconnected (read on the shipped single provider).
C12_Original ==
    [][ShippedProviders
          => \/ ConnState' = ConnState
             \/ <<ConnState, ConnState'>> \in
                    {<<"Disconnected", "Connecting">>, <<"Connecting", "Connected">>,
                     <<"Connecting", "Disconnected">>, <<"Connected", "Disconnected">>}]_vars

\* --------------------------------------------------- fresh retry round
Attempted(c) == {p \in 1..numProviders : OfProvider(c, p) # {}}

\* C13: a connect_all() that raised leaves the lock free and carries no attempt
\* count over: every round counts only the attempts of its own call, a round
\* that gives up has made exactly MCP_CONNECTION_RETRIES attempts on each
\* provider it tried, and an ensure_connected() that returns normally after a
\* round of its own leaves a non-empty pool.
C13_FreshRound ==
    /\ (ConnectCompleted(event) /\ event.kind = "raised")
           => /\ ~locked
              /\ \A p \in Attempted(event.created) :
                     Cardinality(OfProvider(event.created, p)) = MCP_CONNECTION_RETRIES
    /\ \A t \in Tasks :
           InConnect(t)
               => /\ attempt_number(t) >= 1
                  /\ attempt_number(t) = Cardinality(OfProvider(created[t], provider[t]))
    /\ (event.op = "ensure_connected" /\ event.kind = "returned")
           => /\ Len(mcp_tools_list) > 0
              /\ SeqToSet(mcp_tools_list) \subseteq event.created

C13_Witness ==
    /\ ShippedProviders
    /\ MCP_CONNECTION_RETRIES >= 2
    /\ event.op = "ensure_connected"
    /\ event.kind = "returned"
    /\ Cardinality(event.created) = MCP_CONNECTION_RETRIES
    /\ Len(mcp_tools_list) > 0
    /\ Cardinality({s \in 1..Len(session) :
                       s \notin event.created /\ session[s].conn = "failed"})
           >= MCP_CONNECTION_RETRIES

\* ------------------------------------------------ handler properties
Hardened == variant = "stock_market_chat"

\* An input that is present, has a character that is not whitespace and is
\* at most MAX_INPUT_LENGTH characters long.
Accepted(u) ==
    /\ u.present
    /\ \E i \in 1..Len(u.value) : u.value[i].c \notin Whitespace /\ u.value[i].n > 0
    /\ len(u.value) <= MAX_INPUT_LENGTH

\* The content of the events tagged tag, in the order of the events.
RECURSIVE ContentOf(_, _)
ContentOf(events, tag) ==
    IF events = <<>> THEN <<>>
    ELSE IF Head(events).event = tag
         THEN <<(<<Head(events).content>>)>> \o ContentOf(Tail(events), tag)
         ELSE ContentOf(Tail(events), tag)

\* The conversation identity of the current request.
ResolvedIdentity == IF Truthy(request.header) THEN request.header ELSE uuid4(minted)

StreamErrorFragments == {handle_streaming_error(e) : e \in Errors}

\* C14: in the hardened handler the step that receives a request whose input
\* fails validation ends the request with the 400 response: it awaits no
\* ensure_connected(), leaves the connection service untouched, constructs
\* no agent and starts no run.
C14_ValidationFirst ==
    [][(Hardened /\ hpc' # "idle" /\ ~Accepted(request'.input))
          => /\ hpc' = "done"
             /\ response'.status = 400
             /\ ~ensured' /\ ~agent'.built /\ ~run_started'
             /\ pc'[HandlerTask] = "idle"
             /\ UNCHANGED svcVars]_vars

C14_Witness ==
    /\ Hardened
    /\ requests = 2
    /\ raised_at = "validation"
    /\ ~Accepted(request.input)
    /\ Len(mcp_tools_list) > 0

\* C15: validate_input accepts an input iff it is present, has a character
\* that is not whitespace and has at most 10,000 characters; so the empty
\* string, a blank string and 10,001 characters are rejected and exactly
\* 10,000 characters are accepted.
C15_ValidateInput ==
    /\ (Hardened /\ hpc # "idle")
           => /\ validate_input(request.input).is_valid <=> Accepted(request.input)
              /\ raised_at = "validation" <=> ~Accepted(request.input)
    /\ ~validate_input(Str(<<>>)).is_valid
    /\ ~validate_input(Str(<<Chars(" ", 3)>>)).is_valid
    /\ ~validate_input(Str(<<Chars("x", MAX_INPUT_LENGTH + 1)>>)).is_valid
    /\ validate_input(Str(<<Chars("x", MAX_INPUT_LENGTH)>>)).is_valid

C15_Witness ==
    /\ Hardened
    /\ hpc = "streaming"
    /\ len(request.input.value) = MAX_INPUT_LENGTH
    /\ response.status = 200

\* C16: every response of the hardened handler (200, 400 or 500) carries an
\* X-Session-ID header equal to the request's header when that is present and
\* non-empty, and otherwise to the identifier generated for this request.
C16_SessionHeader ==
    (Hardened /\ response.status # 0)
        => /\ response.status \in {200, 400, 500}
           /\ response.header.present
           /\ response.header = ResolvedIdentity
           /\ session_id = ResolvedIdentity
           /\ ~Truthy(request.header)
                  => \A k \in 1..(minted - 1) : response.header # uuid4(k)

C16_Witness ==
    /\ Hardened
    /\ response.status = 500
    /\ request.header = Str(<<>>)
    /\ minted = 2
    /\ response.header = uuid4(2)

\* C17: while a run has not failed, the streamed body is exactly the content
\* of the consumed events that carry the relay's content tag, in the order of
\* emission; this holds after every single event, so each fragment is yielded
\* before the next event is requested.
C17_RelayContent ==
    (run_started /\ raised_at = "none")
        => /\ response.status = 200
           /\ response.body = ContentOf(consumed, ContentTag(variant))

C17_Witness ==
    /\ variant = "ask_lisa"
    /\ response.stream = "complete"
    /\ raised_at = "none"
    /\ Len(consumed) = 3
    /\ consumed[2].event = "RunContent"
    /\ response.body = <<(<<"b">>), (<<"a">>)>>

\* C18: when the run raises while the hardened relay consumes its events, the
\* relay stops and the body is the content relayed so far followed by exactly
\* one error fragment.
C18_SingleErrorFragment ==
    (Hardened /\ raised_at = "stream")
        => LET content == ContentOf(consumed, ContentTag(variant))
               n       == Len(content)
           IN  /\ hpc = "done"
               /\ response.stream = "complete"
               /\ Len(response.body) = n + 1
               /\ SubSeq(response.body, 1, n) = content
               /\ response.body[n + 1] \in StreamErrorFragments
               /\ \A i \in 1..n : response.body[i] \notin StreamErrorFragments

C18_Witness ==
    /\ Hardened
    /\ raised_at = "stream"
    /\ Len(response.body) = 3
    /\ Len(consumed) = 3

\* C19: the status of the hardened handler's response is 400 exactly when
\* validation failed, 500 exactly when ensure_connected(), agent construction
\* or run start raised, and 200 otherwise.
C19_Status ==
    (Hardened /\ response.status # 0)
        => /\ response.status = 400 <=> ~Accepted(request.input)
           /\ response.status = 500
                  <=> raised_at \in {"ensure_connected", "create_agent", "run"}
           /\ response.status = 200
                  <=> (Accepted(request.input) /\ raised_at \in {"none", "stream"})

C19_Witness ==
    /\ Hardened
    /\ response.status = 500
    /\ raised_at = "ensure_connected"
    /\ Accepted(request.input)

\* C20: in the simpler demos every request in which an error was raised,
\* before or during streaming, ends as a complete status-200 response whose
\* last body fragment is the error text and whose X-Session-ID header is the
\* resolved identity.
C20_DemoErrorInBand ==
    (variant \in SimpleVariants /\ hpc = "done" /\ raised_at # "none")
        => /\ response.status = 200
           /\ response.header = ResolvedIdentity
           /\ response.stream = "complete"
           /\ response.body # <<>>
           /\ response.body[Len(response.body)]
                  \in {something_went_wrong(e) : e \in Errors}

\* ------------------------------------------------ provider unavailable
\* The generic fallback of get_user_friendly_message: the apology followed by
\* the stringified cause.
IsFallback(text) == Head(text) = "I'm sorry, but something went wrong:"

\* C21: when ensure_connected() raises inside a hardened request, the
\* response text is a generic retry-later message, not the fallback that
\* quotes the cause, and no agent is constructed or run for the request.
C21_ProviderUnavailable ==
    (Hardened /\ raised_at = "ensure_connected")
        => /\ ~agent.built
           /\ ~run_started
           /\ ~IsFallback(response.body[1])

\* --------------------------------------------------- agent per request
\* C22: the agent or team a request constructs is built for that request
\* alone, bound to the request's resolved identity and to the one shared
\* history store; the history read of its run is made with that identity in
\* that store before any event of the run is relayed.  So a request that
\* carries the X-Session-ID of an earlier one is bound to, and reads the
\* history of, that same identity.
C22_AgentPerRequest ==
    /\ agent.built
           => /\ agent.request = requests
              /\ agent.session_id = ResolvedIdentity
              /\ agent.db = "memory_db"
              /\ Truthy(request.header) => agent.session_id = request.header
    /\ run_started
           => /\ agent.built
              /\ history_lookup = [db |-> "memory_db", session_id |-> ResolvedIdentity]
    /\ consumed # <<>> => run_started

C22_Witness ==
    /\ requests = 2
    /\ minted = 1
    /\ request.header = uuid4(1)
    /\ run_started
    /\ history_lookup.session_id = uuid4(1)
    /\ consumed # <<>>

\* ------------------------------------------------ error classification
\* The categories in the order of the claim: the substrings looked for and
\* the text reported.
Categories ==
    << [keys |-> {<<"context_length_exceeded">>, <<"maximum", "context", "length">>},
        text |-> <<"The conversation history has exceeded the maximum token limit.">>],
       [keys |-> {<<"network">>, <<"connection">>},
        text |-> <<"I'm experiencing connectivity issues with the data provider.">>],
       [keys |-> {<<"rate", "limit">>},
        text |-> <<"API rate limit reached.">>],
       [keys |-> {<<"403">>, <<"forbidden">>},
        text |-> <<"Access denied by the API.">>],
       [keys |-> {<<"401">>, <<"unauthorized">>},
        text |-> <<"Authentication failed.">>],
       [keys |-> {<<"timeout">>},
        text |-> <<"Request timed out.">>] >>

Matches(msg, i) == \E k \in Categories[i].keys : Contains(msg, k)

\* The first category a lower-cased message matches, 0 if it matches none.
FirstMatch(msg) ==
    IF \E i \in 1..Len(Categories) : Matches(msg, i)
    THEN CHOOSE i \in 1..Len(Categories) :
             Matches(msg, i) /\ \A j \in 1..(i - 1) : ~Matches(msg, j)
    ELSE 0

\* C23: get_user_friendly_message reports the first category, in the order
\* context-length, network/connection, rate-limit, 403/forbidden,
\* 401/unauthorized, timeout, one of whose substrings occurs in the
\* lower-cased message, and the fallback (apology and stringified cause) iff
\* none occurs; 'connection timeout' is reported as connectivity.
C23_FirstCategory ==
    /\ message # <<>>
           => LET i == FirstMatch(lower(raised_error))
              IN  /\ i # 0 => message = Categories[i].text
                  /\ i = 0 <=> IsFallback(message)
                  /\ i = 0 => SubSeq(message, 2, 1 + Len(raised_error)) = raised_error
    /\ get_user_friendly_message(<<"connection", "timeout">>) = Categories[2].text

C23_Witness ==
    /\ raised_error = <<"rate", "limit", "Timeout">>
    /\ message = Categories[3].text

\* ------------------------------------------------- base of the backoff
\* C24: the wait after failed attempt k on a provider is
\* multiplier * base^(k-1) with multiplier 1 and base MCP_RETRY_BACKOFF_BASE,
\* limited to the cap base^(N-1) (read on the shipped single provider and on
\* bases of at least 2, where the minimum wait of 1 plays no part).
C24_ExponentialInBase ==
    (ShippedProviders /\ MCP_RETRY_BACKOFF_BASE >= 2)
        => \A t \in Tasks :
               \A k \in 1..Len(waits[t]) :
                   waits[t][k] = Min2(1 * Pow(MCP_RETRY_BACKOFF_BASE, k - 1), WaitCap)

\* ------------------------------------------------------ leaked sessions
\* C25: whenever no connect_all/disconnect_all critical section is running,
\* every session whose connect() succeeded and on which close() has not been
\* attempted is an element of the pool (read on the shipped single provider).
C25_NoLeak ==
    (ShippedProviders /\ \A t \in Tasks : ~InCritical(t))
        => \A s \in 1..Len(session) :
               (session[s].conn = "ok" /\ session[s].closed = "no")
                   => s \in SeqToSet(mcp_tools_list)

\* ------------------------------------------- closed sessions in the pool
\* close() has been called on session s: it returned or raised, or a
\* disconnect_all() is suspended in it.
CloseAttempted(s) ==
    \/ session[s].closed # "no"
    \/ \E t \in Tasks :
           /\ InDisconnect(t)
           /\ closeIdx[t] < Len(closing[t])
           /\ closing[t][closeIdx[t] + 1] = s

\* C26: at every suspension point, those inside a disconnect_all() under way
\* included, the tools property holds no session on which close() has been
\* attempted, and is_connected is false if that holds of every pooled
\* session (read on the shipped single provider).
C26_ClosedNotObservable ==
    ShippedProviders
        => /\ \A i \in 1..Len(tools) : ~CloseAttempted(tools[i])
           /\ (\A i \in 1..Len(tools) : CloseAttempted(tools[i])) => ~is_connected

\* ------------------------------------------------ the agent's tool list
\* C27: in the Stock Market Chat handler every agent that is constructed has
\* a non-empty tool list, whatever connect_all and disconnect_all calls of
\* another task interleave with the handler's ensure_connected().
C27_ToolsNonEmpty ==
    (Hardened /\ agent.built) => Len(agent.tools) > 0

\* The handler had to connect, another task's disconnect_all() queued on the
\* lock meanwhile, and the agent was built before that call ran.
C27_Witness ==
    /\ Hardened
    /\ agent.built
    /\ Len(agent.tools) > 0
    /\ op[OtherTask] = "disconnect_all"
    /\ pc[OtherTask] = "wait_lock"

\* ------------------------------------------------------- termination
\* C28: provided every connect(), close() and backoff sleep terminates, every
\* connect_all(), ensure_connected() and disconnect_all() under way eventually
\* completes, by returning or by raising, and the lock is held exactly while a
\* task is inside a critical section, so never after a call has ended; a
\* caller only leaves the lock's queue by acquiring the lock, hence every
\* waiter eventually acquires it.
C28_Completes ==
    /\ [](locked <=> \E t \in Tasks : InCritical(t))
    /\ \A t \in Tasks : (pc[t] # "idle") ~> (pc[t] = "idle")

\* A call has just ended by raising, the lock is free and a caller waits.
C28_Witness ==
    /\ event.kind = "raised"
    /\ ~locked
    /\ Len(waiters) > 0

\* ---------------------------------------------------- the usage tracker
\* The count recorded for today, 0 if nothing was recorded.
TodayCount == IF today \in DOMAIN usage_data THEN usage_data[today].count ELSE 0

\* Every date of a usage dict has a count equal to the sum of its endpoints.
CountsAddUp(data) ==
    \A d \in DOMAIN data :
        data[d].count = SumOver(data[d].endpoints, DOMAIN data[d].endpoints)

\* C29: after any sequence of record_api_call calls, in memory and in the
\* file, each date's count is the sum of its per-endpoint counts; for the
\* current date get_today_usage reports the count and
\* remaining = max(0, 25 - count), never negative; can_make_request() is
\* true iff count < 25; a date without a recorded call reports 0 and 25.
C29_UsageCounts ==
    /\ CountsAddUp(usage_data)
    /\ CountsAddUp(storage.data)
    /\ usage_report # NoReport
           => /\ usage_report.count = TodayCount
              /\ usage_report.remaining >= 0
              /\ usage_report.remaining =
                     (IF TodayCount < 25 THEN 25 - TodayCount ELSE 0)
              /\ today \notin DOMAIN usage_data
                     => usage_report.count = 0 /\ usage_report.remaining = 25
    /\ allowed # "none" => (allowed = "yes" <=> TodayCount < 25)

\* Calls were recorded beyond the limit on both endpoints, and both reports
\* were asked for.
C29_Witness ==
    /\ TodayCount = 26
    /\ DOMAIN usage_data[today].endpoints = Endpoints
    /\ usage_report.count = 26
    /\ usage_report.remaining = 0
    /\ allowed = "no"

====
